---- MODULE Spec2Model ----
(***************************************************************************)
(* A model of sssg (src/src/bin/sssg.rs): the build sweep                  *)
(* (generate_files / generate_html / get_section), the clean sweep         *)
(* (delete_generated_files) and the preview server (serve_htdocs).         *)
(*                                                                         *)
(* Strings (paths, URLs, file contents) are sequences of one-character     *)
(* strings, so that ends_with, strip_suffix, rsplit and the sanitising     *)
(* regex are computed on characters as the code computes them.  The text   *)
(* of an HTML source is a sequence of TOML lines (see from_str).           *)
(***************************************************************************)
EXTENDS Integers, Sequences, FiniteSets, TLC

VARIABLES
    fs,           \* the filesystem: canonical path -> contents of the file
    dirOrder,     \* the entries under htdocs/ in the order WalkDir yields them
    diskFull,     \* the device has no free block: writing data fails
    \* ---- serve_htdocs
    pc,           \* position of the server loop
    queue,        \* requests received by the listener, not yet taken by the loop
    arrived,      \* number of requests that reached the listener
    request,      \* request.url() of the request being handled
    url,          \* the sanitised url
    filename,     \* the path handed to read(), NoFile when none was read
    message,      \* the response body
    status_code,  \* the response status
    logCount,     \* number of lines printed so far
    lastLog,      \* the last line printed
    received,     \* number of requests taken by the loop
    responded,    \* number of responses transmitted
    \* ---- generate_files / delete_generated_files
    bpc,          \* position of the running command
    cmd,          \* the command of the current run
    filenames,    \* the collected filenames still to be processed
    output,       \* the generated content about to be written
    runs,         \* number of commands started
    before,       \* the filesystem when the current run started
    prevCmd,      \* the command of the previous run
    prevOk,       \* whether the previous run ended without error
    runOrder,     \* the collected filenames of the current run
    failedAt,     \* the filename at which the current run died
    \* ---- generate_html applied to one document
    contents,     \* the text of the document
    merged,       \* the PlaceholderMap handed to render
    html,         \* the result of generate_html
    hpc           \* whether generate_html has been applied

vars == <<fs, dirOrder, diskFull, pc, queue, arrived, request, url, filename,
          message, status_code, logCount, lastLog, received, responded,
          bpc, cmd, filenames, output, runs, before, prevCmd, prevOk,
          runOrder, failedAt, contents, merged, html, hpc>>

serverVars == <<pc, queue, arrived, request, url, filename, message,
                status_code, logCount, lastLog, received, responded>>

batchVars == <<bpc, cmd, filenames, output, runs, before, prevCmd, prevOk,
               runOrder, failedAt>>

htmlVars == <<contents, merged, html, hpc>>

(***************************************************************************)
(* Bounds of the model.                                                    *)
(***************************************************************************)
MaxUrlLen == 2

MaxRequests == 2

MaxSources == 3

MaxRuns == 2

MaxLines == 4

(***************************************************************************)
(* Strings.                                                                *)
(***************************************************************************)
Marker == <<".", "s", "s", "s", "g">>

Cwd == <<"/", "w">>

Htdocs == <<"/", "h", "t", "d", "o", "c", "s">>

Root == Cwd \o Htdocs

IndexHtml == <<"i", "n", "d", "e", "x", ".", "h", "t", "m", "l">>

TemplatesDir == <<"/", "t", "e", "m", "p", "l", "a", "t", "e", "s", "/">>

NoFile == <<"?">>

EndsWith(s, suffix) ==
    /\ Len(s) >= Len(suffix)
    /\ SubSeq(s, Len(s) - Len(suffix) + 1, Len(s)) = suffix

StartsWith(s, prefix) ==
    /\ Len(s) >= Len(prefix)
    /\ SubSeq(s, 1, Len(prefix)) = prefix

StripSuffix(s, suffix) == SubSeq(s, 1, Len(s) - Len(suffix))

Contains(s, sub) ==
    \E i \in 1..(Len(s) - Len(sub) + 1) : SubSeq(s, i, i + Len(sub) - 1) = sub

DotDot == <<".", ".">>

\* Regex::replace (first match only) instead of replace_all.
RECURSIVE ReplaceFirst(_)
ReplaceFirst(s) ==
    IF Len(s) < 2 THEN s
    ELSE IF s[1] = "." /\ s[2] = "." THEN <<"_">> \o SubSeq(s, 3, Len(s))
    ELSE <<s[1]>> \o ReplaceFirst(Tail(s))

\* SANITISE_URL.replace_all(url, "_"): the leftmost non-overlapping matches of
\* [.]{2}, each replaced by "_".
RECURSIVE SANITISE_URL(_)
SANITISE_URL(s) ==
    IF Len(s) < 2 THEN s
    ELSE IF s[1] = "." /\ s[2] = "." THEN <<"_">> \o SANITISE_URL(SubSeq(s, 3, Len(s)))
    ELSE <<s[1]>> \o SANITISE_URL(Tail(s))

(***************************************************************************)
(* The filesystem.  fs maps the canonical path of each regular file to its *)
(* contents; a path is resolved as the kernel resolves it (empty and "."   *)
(* components dropped, ".." stepping to the parent).                       *)
(***************************************************************************)
RECURSIVE Components(_, _)
Components(path, cur) ==
    IF path = <<>> THEN <<cur>>
    ELSE IF Head(path) = "/" THEN <<cur>> \o Components(Tail(path), <<>>)
    ELSE Components(Tail(path), Append(cur, Head(path)))

RECURSIVE Resolve(_, _)
Resolve(comps, acc) ==
    IF comps = <<>> THEN acc
    ELSE LET c == Head(comps) IN
         IF c = <<>> \/ c = <<".">> THEN Resolve(Tail(comps), acc)
         ELSE IF c = DotDot
              THEN Resolve(Tail(comps),
                           IF acc = <<>> THEN acc ELSE SubSeq(acc, 1, Len(acc) - 1))
              ELSE Resolve(Tail(comps), Append(acc, c))

RECURSIVE Join(_)
Join(comps) ==
    IF comps = <<>> THEN <<>> ELSE <<"/">> \o Head(comps) \o Join(Tail(comps))

Canonical(path) == Join(Resolve(Components(path, <<>>), <<>>))

\* A path whose last component is empty, "." or ".." names a directory (or fails
\* with ENOTDIR); so does a path that is no key of fs.
IsFile(path) ==
    LET comps == Components(path, <<>>)
        last  == comps[Len(comps)]
    IN  /\ last # <<>> /\ last # <<".">> /\ last # DotDot
        /\ Canonical(path) \in DOMAIN fs

\* std::fs::read
read(path) ==
    IF IsFile(path) THEN [ok |-> TRUE, data |-> fs[Canonical(path)]]
    ELSE [ok |-> FALSE, data |-> <<"E", "r", "r", "o", "r">> \o path]

InvalidUtf8 == "\\xFF"

\* std::fs::read_to_string: fails as read does, and on bytes that are not UTF-8.
read_to_string(path) ==
    IF IsFile(path) /\ \A i \in 1..Len(fs[Canonical(path)]) :
                           fs[Canonical(path)][i] # InvalidUtf8
    THEN [ok |-> TRUE, data |-> fs[Canonical(path)]]
    ELSE [ok |-> FALSE, data |-> <<>>]

(***************************************************************************)
(* generate_html and get_section.                                          *)
(*                                                                         *)
(* The text of an HTML source is a sequence of TOML lines:                 *)
(*   <<"table", n>>   the header [n]                                       *)
(*   <<"str", k, v>>  k = "v", a string value                              *)
(*   <<"int", k>>     k = 1, a value that is no string                     *)
(*   <<"junk">>       a line that is no TOML                               *)
(***************************************************************************)
StrValue(v) == [type |-> "str", str |-> v, table |-> <<>>]

IntValue == [type |-> "int", str |-> <<>>, table |-> <<>>]

TableValue(t) == [type |-> "table", str |-> <<>>, table |-> t]

\* toml::from_str: the document as a table of values, or a parse error (a line
\* that is no TOML, a key or a table defined twice).
RECURSIVE ParseLines(_, _, _)
ParseLines(lines, doc, cur) ==
    IF lines = <<>> THEN [ok |-> TRUE, doc |-> doc]
    ELSE
      LET l == Head(lines)
          inTable == cur # ""
          keys == IF inTable THEN DOMAIN doc[cur].table ELSE DOMAIN doc
          put(k, v) ==
              IF inTable
              THEN [doc EXCEPT ![cur] = TableValue(doc[cur].table @@ (k :> v))]
              ELSE doc @@ (k :> v)
      IN  CASE l[1] = "table" ->
                 IF l[2] \in DOMAIN doc THEN [ok |-> FALSE, doc |-> <<>>]
                 ELSE ParseLines(Tail(lines), doc @@ (l[2] :> TableValue(<<>>)), l[2])
            [] l[1] = "str" ->
                 IF l[2] \in keys THEN [ok |-> FALSE, doc |-> <<>>]
                 ELSE ParseLines(Tail(lines), put(l[2], StrValue(l[3])), cur)
            [] l[1] = "int" ->
                 IF l[2] \in keys THEN [ok |-> FALSE, doc |-> <<>>]
                 ELSE ParseLines(Tail(lines), put(l[2], IntValue), cur)
            [] OTHER -> [ok |-> FALSE, doc |-> <<>>]

from_str(text) == ParseLines(text, <<>>, "")

get_section(name, document) ==
    IF name \notin DOMAIN document THEN <<>>
    ELSE LET c == document[name] IN
         IF c.type # "table" THEN <<>>
         ELSE [k \in DOMAIN c.table |->
                  IF c.table[k].type = "str" THEN c.table[k].str ELSE <<>>]

\* comrak's markdown_to_html: a paragraph around the text, nothing for no text.
markdown_to_html(markdown) ==
    IF markdown = <<>> THEN <<>>
    ELSE <<"<", "p", ">">> \o markdown \o <<"<", "/", "p", ">", "\n">>

\* entry(name).or_insert(value): an existing key keeps its value.
InsertIfAbsent(map, name, value) ==
    [k \in DOMAIN map \cup {name} |-> IF k \in DOMAIN map THEN map[k] ELSE value]

\* HashMap::insert
Insert(map, name, value) ==
    [k \in DOMAIN map \cup {name} |-> IF k = name THEN value ELSE map[k]]

\* The loop inserting the rendered markdown values into plaintext.
RECURSIVE InsertMarkdown(_, _, _)
InsertMarkdown(plaintext, markdown, names) ==
    IF names = {} THEN plaintext
    ELSE LET name == CHOOSE n \in names : TRUE IN
         InsertMarkdown(Insert(plaintext, name, markdown_to_html(markdown[name])),
                        markdown, names \ {name})

\* The map handed to render.
PlaceholderMap(document) ==
    LET markdown == get_section("markdown", document) IN
    InsertMarkdown(get_section("plaintext", document), markdown, DOMAIN markdown)

\* The placeholder tokens of a template and the names they refer to.
PlaceholderName(c) ==
    CASE c = "{a}" -> "a"
      [] c = "{b}" -> "b"
      [] OTHER -> ""

\* placeholder::render: every token replaced by its value (which is not scanned
\* again), or the name of the first token that has none.
RECURSIVE render(_, _)
render(template, values) ==
    IF template = <<>> THEN [ok |-> TRUE, text |-> <<>>]
    ELSE LET name == PlaceholderName(Head(template)) IN
         IF name # "" /\ name \notin DOMAIN values
         THEN [ok |-> FALSE, text |-> <<name>>]
         ELSE LET rest == render(Tail(template), values) IN
              IF ~rest.ok THEN rest
              ELSE [ok |-> TRUE,
                    text |-> (IF name = "" THEN <<Head(template)>> ELSE values[name])
                             \o rest.text]

NotSpace(c) == c \notin {" ", "\n"}

\* minify::html::minify: the whitespace is dropped.
html_minify(text) == SelectSeq(text, NotSpace)

\* The result of generate_html: Ok(text), Err(text) or the death of the process.
Ok(text) == [kind |-> "ok", text |-> text]

Err(text) == [kind |-> "err", text |-> text]

Die == [kind |-> "die", text |-> <<>>]

generate_html(text) ==
    LET parsed == from_str(text) IN
    IF ~parsed.ok THEN Err(<<"parse">>)
    ELSE
      LET config == get_section("config", parsed.doc)
          plaintext == PlaceholderMap(parsed.doc)
      IN  IF "template" \notin DOMAIN config THEN Err(<<"template">>)
          ELSE LET template == Cwd \o TemplatesDir \o config["template"]
                   template_contents == read_to_string(template)
               IN  IF ~template_contents.ok THEN Die
                   ELSE LET out == render(template_contents.data, plaintext) IN
                        IF ~out.ok THEN Err(out.text)
                        ELSE Ok(html_minify(out.text))

\* generate_html applied to one document, every document of at most MaxLines
\* lines over these lines.
Lines ==
    {<<"table", "config">>, <<"table", "plaintext">>, <<"table", "markdown">>,
     <<"str", "template", <<"t">>>>, <<"str", "a", <<"x">>>>, <<"str", "a", <<"y">>>>,
     <<"str", "b", <<"x">>>>, <<"int", "a">>, <<"junk">>}

Documents == UNION {[1..n -> Lines] : n \in 0..MaxLines}

TemplateT == <<"<", "h", ">", "{a}", " ", "<", "/", "h", ">", "{b}">>

TemplateTree == (Cwd \o TemplatesDir \o <<"t">> :> TemplateT)

ApplyGenerateHtml ==
    /\ hpc = "idle"
    /\ hpc' = "done"
    /\ html' = generate_html(contents)
    /\ merged' = IF from_str(contents).ok
                 THEN PlaceholderMap(from_str(contents).doc) ELSE <<>>
    /\ UNCHANGED contents

(***************************************************************************)
(* generate_files and delete_generated_files.                              *)
(***************************************************************************)
Css == <<"c", "s", "s">>

Js == <<"j", "s">>

Html == <<"h", "t", "m", "l">>

Txt == <<"t", "x", "t">>

\* rsplit('.').skip(1).next(): the text between the last two dots (or from the
\* start to the last dot), None without a dot.
filetype(name) ==
    LET dots == {i \in 1..Len(name) : name[i] = "."} IN
    IF dots = {} THEN [some |-> FALSE, kind |-> <<>>]
    ELSE LET last == CHOOSE i \in dots : \A j \in dots : j <= i
             earlier == {i \in dots : i < last}
             prev == IF earlier = {} THEN 0
                     ELSE CHOOSE i \in earlier : \A j \in earlier : j <= i
         IN  [some |-> TRUE, kind |-> SubSeq(name, prev + 1, last - 1)]

\* f.ends_with(".sssg")
IsSourceFile(name) == EndsWith(name, Marker)

\* The filenames collected from the walk of htdocs/.
Walk == SelectSeq(dirOrder, IsSourceFile)

\* The kind is stripped and the marker kept: <name>.sssg.
ArtifactKeepsMarker(name) ==
    LET t == filetype(name) IN
    SubSeq(name, 1, Len(name) - Len(Marker) - Len(t.kind) - 1) \o Marker

\* filename.strip_suffix(".sssg")
Artifact(name) == StripSuffix(name, Marker)

CssInvalid == "<!>"

\* minifier::css::minify: the whitespace is dropped; some inputs are rejected.
css_minify(text) ==
    IF \E i \in 1..Len(text) : text[i] = CssInvalid THEN Err(<<"css">>)
    ELSE Ok(SelectSeq(text, NotSpace))

\* minifier::js::minify
js_minify(text) == SelectSeq(text, NotSpace)

\* The output of one source, by its kind; the process dies on any other kind.
Generate(name, text) ==
    LET t == filetype(name) IN
    IF ~t.some THEN Die
    ELSE CASE t.kind = Css -> css_minify(text)
           [] t.kind = Html -> generate_html(text)
           [] t.kind = Js -> Ok(js_minify(text))
           [] OTHER -> Die

ValidKind(name) ==
    LET t == filetype(name) IN t.some /\ t.kind \in {Css, Html, Js}

\* The files of a tree: sources of each kind, good and bad.
SourceName(c, kind) == Root \o <<"/", c, ".">> \o kind \o Marker

PageP ==
    <<<<"table", "config">>, <<"str", "template", <<"t">>>>,
      <<"table", "plaintext">>, <<"str", "a", <<"x">>>>, <<"str", "b", <<"x">>>>,
      <<"table", "markdown">>, <<"str", "a", <<"y">>>>>>

PageS ==
    <<<<"table", "config">>, <<"str", "template", <<"t">>>>,
      <<"table", "plaintext">>, <<"str", "a", <<"x">>>>>>

SourcePool ==
    (SourceName("a", Css) :> <<"h", " ", "{", "}">>)
    @@ (SourceName("j", Js) :> <<"v", " ", "=", "1">>)
    @@ (SourceName("u", Css) :> <<"h", InvalidUtf8>>)
    @@ (SourceName("p", Html) :> PageP)
    @@ (SourceName("s", Html) :> PageS)
    @@ (SourceName("x", Txt) :> <<"t">>)

OldArtifact == <<"o", "l", "d">>

StaticIndex == Root \o <<"/">> \o IndexHtml

\* The orders in which a directory may list at most MaxSources of the sources.
Orders ==
    {o \in UNION {[1..n -> DOMAIN SourcePool] : n \in 0..MaxSources} :
        \A i, j \in 1..Len(o) : i # j => o[i] # o[j]}

Range(f) == {f[i] : i \in DOMAIN f}

\* A tree: the sources in walk order, each followed by its artifact when one
\* exists already; a static page; the template.
RECURSIVE Listing(_, _)
Listing(order, prior) ==
    IF order = <<>> THEN <<>>
    ELSE <<Head(order)>>
         \o (IF Artifact(Head(order)) \in prior THEN <<Artifact(Head(order))>> ELSE <<>>)
         \o Listing(Tail(order), prior)

TreeFiles(order, prior) ==
    [f \in Range(order) |-> SourcePool[f]]
    @@ [f \in prior |-> OldArtifact]
    @@ (StaticIndex :> <<"O", "K">>)
    @@ TemplateTree

\* A run of a command starts: the filenames are collected.
Start(c) ==
    /\ bpc \in {"idle", "done", "died"}
    /\ runs < MaxRuns
    /\ runs' = runs + 1
    /\ cmd' = c
    /\ prevCmd' = cmd
    /\ prevOk' = (bpc = "done")
    /\ before' = fs
    /\ filenames' = Walk
    /\ runOrder' = Walk
    /\ failedAt' = NoFile
    /\ output' = <<>>
    /\ UNCHANGED <<fs, dirOrder, diskFull>>

StartBuild == Start("build") /\ bpc' = "generate"

StartClean == Start("clean") /\ bpc' = "remove"

\* die!(...)
Died(name) ==
    /\ bpc' = "died"
    /\ failedAt' = name
    /\ UNCHANGED <<filenames, output>>

\* One source is read and its content generated.
BuildGenerate ==
    /\ bpc = "generate"
    /\ filenames # <<>>
    /\ LET filename_ == Head(filenames)
           text == read_to_string(filename_)
       IN  IF ~text.ok THEN Died(filename_)
           ELSE LET out == Generate(filename_, text.data) IN
                IF out.kind # "ok" THEN Died(filename_)
                ELSE /\ output' = out.text
                     /\ bpc' = "create"
                     /\ UNCHANGED <<filenames, failedAt>>
    /\ UNCHANGED <<fs, dirOrder, diskFull, cmd, runs, before, prevCmd, prevOk, runOrder>>

\* write(): File::create makes the artifact, or empties the one that exists.
BuildCreate ==
    /\ bpc = "create"
    /\ LET path == Artifact(Head(filenames)) IN
        /\ fs' = [f \in DOMAIN fs \cup {path} |-> IF f = path THEN <<>> ELSE fs[f]]
        /\ dirOrder' = IF path \in Range(dirOrder) THEN dirOrder
                       ELSE Append(dirOrder, path)
    /\ bpc' = "write"
    /\ UNCHANGED <<diskFull, cmd, filenames, output, runs, before, prevCmd, prevOk,
                   runOrder, failedAt>>

\* write(): write_all stores the output, which fails when data is to be stored
\* and the device is full.
BuildWrite ==
    /\ bpc = "write"
    /\ LET filename_ == Head(filenames) IN
       IF diskFull /\ output # <<>>
       THEN /\ Died(filename_)
            /\ UNCHANGED fs
       ELSE /\ fs' = [fs EXCEPT ![Artifact(filename_)] = output]
            /\ filenames' = Tail(filenames)
            /\ bpc' = "generate"
            /\ UNCHANGED <<output, failedAt>>
    /\ UNCHANGED <<dirOrder, diskFull, cmd, runs, before, prevCmd, prevOk, runOrder>>

BuildDone ==
    /\ bpc = "generate"
    /\ filenames = <<>>
    /\ bpc' = "done"
    /\ UNCHANGED <<fs, dirOrder, diskFull, cmd, filenames, output, runs, before,
                   prevCmd, prevOk, runOrder, failedAt>>

\* remove_file tolerates a missing file.
RemoveNeverFails(path) == FALSE

\* remove_file fails on a file that does not exist.
RemoveFails(path) == ~IsFile(path)

NotPath(path) == LET Test(f) == f # path IN SelectSeq(dirOrder, Test)

\* The artifact of one source is removed.
CleanRemove ==
    /\ bpc = "remove"
    /\ filenames # <<>>
    /\ LET filename_ == Head(filenames)
           generated_filename == Artifact(filename_)
       IN  IF ~ValidKind(filename_) \/ RemoveFails(generated_filename)
           THEN /\ Died(filename_)
                /\ UNCHANGED <<fs, dirOrder>>
           ELSE /\ fs' = [f \in DOMAIN fs \ {generated_filename} |-> fs[f]]
                /\ dirOrder' = NotPath(generated_filename)
                /\ filenames' = Tail(filenames)
                /\ UNCHANGED <<bpc, output, failedAt>>
    /\ UNCHANGED <<diskFull, cmd, runs, before, prevCmd, prevOk, runOrder>>

CleanDone ==
    /\ bpc = "remove"
    /\ filenames = <<>>
    /\ bpc' = "done"
    /\ UNCHANGED <<fs, dirOrder, diskFull, cmd, filenames, output, runs, before,
                   prevCmd, prevOk, runOrder, failedAt>>

(***************************************************************************)
(* serve_htdocs: the preview server.                                       *)
(***************************************************************************)
UrlChars == {".", "/", "a"}

UrlTails == {<<>>, Marker, <<"/", ".", ".", "/", "a">>}

\* The request urls the clients send: every string of at most MaxUrlLen
\* characters, alone or followed by the marker suffix or by "/../a".
Urls ==
    {p \o t : p \in UNION {[1..n -> UrlChars] : n \in 0..MaxUrlLen}, t \in UrlTails}

\* The tree served: an index, a page, a source left under htdocs/, a directory
\* literally named "_", and two files outside htdocs/.
ServeTree ==
    (Root \o <<"/">> \o IndexHtml :> <<"O", "K">>)
    @@ (Root \o <<"/", "a">> :> <<"p", "a", "g", "e">>)
    @@ (Root \o <<"/", "a">> \o Marker :> <<"s", "r", "c">>)
    @@ (Root \o <<"/", "_", "/", "a">> :> <<"u">>)
    @@ (Cwd \o <<"/", "a">> :> <<"s", "e", "c", "r", "e", "t">>)
    @@ (<<"/", "a">> :> <<"r", "o", "o", "t">>)

FileNotFound == <<"F", "i", "l", "e", " ", "n", "o", "t", " ", "f", "o", "u", "n", "d">>

\* A check of the wrong end of the url.
IsSourceUrlPrefix(u) == StartsWith(u, Marker)

\* url.ends_with(".sssg")
IsSourceUrl(u) == EndsWith(u, Marker)

\* The index filename is never appended.
ResolveNoIndex(u) == Root \o u

\* The filename of a url that is not rejected.
ResolveFilename(u) ==
    IF u # <<>> /\ u[Len(u)] = "/" THEN Root \o u \o IndexHtml ELSE Root \o u

\* (message, status_code) and the filename read, for a sanitised url.
Respond(u) ==
    IF IsSourceUrl(u)
    THEN [filename |-> NoFile, message |-> FileNotFound, status_code |-> 404]
    ELSE LET f == ResolveFilename(u)
             r == read(f)
         IN  IF r.ok
             THEN [filename |-> f, message |-> r.data, status_code |-> 200]
             ELSE [filename |-> f, message |-> r.data, status_code |-> 404]

\* A client's request reaches the listener.
Arrive(u) ==
    /\ arrived < MaxRequests
    /\ pc # "dead"
    /\ arrived' = arrived + 1
    /\ queue' = Append(queue, u)
    /\ UNCHANGED <<pc, request, url, filename, message, status_code, logCount,
                   lastLog, received, responded>>

\* The loop takes the next request and sanitises its url.
Receive(u) ==
    /\ pc = "accept"
    /\ received < MaxRequests
    /\ received' = received + 1
    /\ request' = u
    /\ url' = SANITISE_URL(u)
    /\ filename' = NoFile
    /\ message' = <<>>
    /\ status_code' = 0
    /\ pc' = "resolve"
    /\ UNCHANGED <<logCount, lastLog, responded>>

\* The rejection of a source url, or the read of the resolved file.
ServeFile ==
    /\ pc = "resolve"
    /\ LET r == Respond(url) IN
        /\ filename' = r.filename
        /\ message' = r.message
        /\ status_code' = r.status_code
    /\ pc' = "log"
    /\ UNCHANGED <<queue, arrived, request, url, logCount, lastLog, received, responded>>

\* The line is printed after the response has been sent.
LogLate ==
    /\ pc = "log"
    /\ pc' = "respond"
    /\ UNCHANGED <<queue, arrived, request, url, filename, message, status_code,
                   logCount, lastLog, received, responded>>

\* println!("[{}] {status_code} {} {}", now, remote_addr, url)
Log ==
    /\ pc = "log"
    /\ logCount' = logCount + 1
    /\ lastLog' = [status_code |-> status_code, url |-> url]
    /\ pc' = "respond"
    /\ UNCHANGED <<queue, arrived, request, url, filename, message, status_code,
                   received, responded>>

\* request.respond(response): the transmission succeeds, or it fails and the
\* process dies.
Transmit ==
    /\ pc = "respond"
    /\ \E sent \in BOOLEAN :
        IF sent
        THEN /\ responded' = responded + 1
             /\ pc' = "accept"
        ELSE /\ pc' = "dead"
             /\ UNCHANGED responded
    /\ UNCHANGED <<queue, arrived, request, url, filename, message, status_code,
                   logCount, lastLog, received>>

ServerInit ==
    /\ pc = "accept"
    /\ queue = <<>>
    /\ arrived = 0
    /\ request = <<>>
    /\ url = <<>>
    /\ filename = NoFile
    /\ message = <<>>
    /\ status_code = 0
    /\ logCount = 0
    /\ lastLog = [status_code |-> 0, url |-> <<>>]
    /\ received = 0
    /\ responded = 0

BatchInit ==
    /\ bpc = "idle"
    /\ cmd = "none"
    /\ filenames = <<>>
    /\ output = <<>>
    /\ runs = 0
    /\ before = fs
    /\ prevCmd = "none"
    /\ prevOk = FALSE
    /\ runOrder = <<>>
    /\ failedAt = NoFile

HtmlInit ==
    /\ contents = <<>>
    /\ merged = <<>>
    /\ html = [kind |-> "none", text |-> <<>>]
    /\ hpc = "idle"

\* The server alone, serving a fixed tree to arbitrary requests.
ReceiveAny ==
    /\ \E u \in Urls : Receive(u)
    /\ UNCHANGED <<queue, arrived>>

ServeInit ==
    /\ fs = ServeTree
    /\ dirOrder = <<>>
    /\ diskFull = FALSE
    /\ ServerInit
    /\ BatchInit
    /\ HtmlInit

ServeNext ==
    \/ ReceiveAny /\ UNCHANGED <<fs, dirOrder, diskFull, batchVars, htmlVars>>
    \/ ServeFile /\ UNCHANGED <<fs, dirOrder, diskFull, batchVars, htmlVars>>
    \/ Log /\ UNCHANGED <<fs, dirOrder, diskFull, batchVars, htmlVars>>
    \/ Transmit /\ UNCHANGED <<fs, dirOrder, diskFull, batchVars, htmlVars>>

SpecServe == ServeInit /\ [][ServeNext]_vars

\* Commands run one after the other on a tree.
BatchTreeInit ==
    /\ \E o \in Orders :
        \E prior \in SUBSET {Artifact(f) : f \in Range(o)} :
            /\ fs = TreeFiles(o, prior)
            /\ dirOrder = <<StaticIndex>> \o Listing(o, prior)
    /\ diskFull \in BOOLEAN
    /\ ServerInit
    /\ BatchInit
    /\ HtmlInit

BatchNext ==
    \/ StartBuild /\ UNCHANGED <<serverVars, htmlVars>>
    \/ BuildGenerate /\ UNCHANGED <<serverVars, htmlVars>>
    \/ BuildCreate /\ UNCHANGED <<serverVars, htmlVars>>
    \/ BuildWrite /\ UNCHANGED <<serverVars, htmlVars>>
    \/ BuildDone /\ UNCHANGED <<serverVars, htmlVars>>
    \/ StartClean /\ UNCHANGED <<serverVars, htmlVars>>
    \/ CleanRemove /\ UNCHANGED <<serverVars, htmlVars>>
    \/ CleanDone /\ UNCHANGED <<serverVars, htmlVars>>

SpecBatch == BatchTreeInit /\ [][BatchNext]_vars

\* generate_html applied to one document.
HtmlDocInit ==
    /\ fs = TemplateTree
    /\ dirOrder = <<>>
    /\ diskFull = FALSE
    /\ ServerInit
    /\ BatchInit
    /\ contents \in Documents
    /\ merged = <<>>
    /\ html = [kind |-> "none", text |-> <<>>]
    /\ hpc = "idle"

HtmlNext ==
    ApplyGenerateHtml /\ UNCHANGED <<fs, dirOrder, diskFull, serverVars, batchVars>>

SpecHtml == HtmlDocInit /\ [][HtmlNext]_vars

\* The server and a build at the same time, on a tree that holds one source
\* and the artifact of an earlier build of it.
ConcUrls == {<<"/", "a", ".", "c", "s", "s">>, <<"/">>}

ConcSource == <<SourceName("a", Css)>>

ArriveAny == \E u \in ConcUrls : Arrive(u)

\* incoming_requests() yields the oldest request received.
Dequeue ==
    /\ queue # <<>>
    /\ Receive(Head(queue))
    /\ queue' = Tail(queue)
    /\ UNCHANGED arrived

ConcInit ==
    /\ fs = TreeFiles(ConcSource, {Artifact(ConcSource[1])})
    /\ dirOrder = <<StaticIndex>> \o Listing(ConcSource, {Artifact(ConcSource[1])})
    /\ diskFull = FALSE
    /\ ServerInit
    /\ BatchInit
    /\ HtmlInit

ConcNext ==
    \/ ArriveAny /\ UNCHANGED <<fs, dirOrder, diskFull, batchVars, htmlVars>>
    \/ Dequeue /\ UNCHANGED <<fs, dirOrder, diskFull, batchVars, htmlVars>>
    \/ ServeFile /\ UNCHANGED <<fs, dirOrder, diskFull, batchVars, htmlVars>>
    \/ Log /\ UNCHANGED <<fs, dirOrder, diskFull, batchVars, htmlVars>>
    \/ Transmit /\ UNCHANGED <<fs, dirOrder, diskFull, batchVars, htmlVars>>
    \/ StartBuild /\ UNCHANGED <<serverVars, htmlVars>>
    \/ BuildGenerate /\ UNCHANGED <<serverVars, htmlVars>>
    \/ BuildCreate /\ UNCHANGED <<serverVars, htmlVars>>
    \/ BuildWrite /\ UNCHANGED <<serverVars, htmlVars>>
    \/ BuildDone /\ UNCHANGED <<serverVars, htmlVars>>

SpecConc == ConcInit /\ [][ConcNext]_vars

(***************************************************************************)
(* The properties.                                                         *)
(***************************************************************************)
CountOf(s, c) == Cardinality({i \in 1..Len(s) : s[i] = c})

Letters(s) == LET Test(c) == c \notin {".", "_"} IN SelectSeq(s, Test)

IndexOf(s, x) == CHOOSE i \in 1..Len(s) : s[i] = x

SameAsBefore(path) ==
    /\ path \in DOMAIN fs <=> path \in DOMAIN before
    /\ path \in DOMAIN fs => fs[path] = before[path]

Ended(c) == cmd = c /\ bpc \in {"done", "died"}

\* C1: the sanitised url of every request holds no "..": each pair of dots of
\* the raw url has become one "_" and nothing else changed; no file is read
\* before the rewrite (when the url has just been sanitised nothing was read);
\* and the path read is the output root followed by the sanitised url (and the
\* index filename), so that it holds no ".." component and stays under the root.
C1_SanitisedPathStaysUnderRoot ==
    /\ ~Contains(url, DotDot)
    /\ Letters(url) = Letters(request)
    /\ 2 * (CountOf(url, "_") - CountOf(request, "_")) + CountOf(url, ".")
         = CountOf(request, ".")
    /\ pc = "resolve" => filename = NoFile
    /\ filename # NoFile =>
         /\ filename \in {Root \o url, Root \o url \o IndexHtml}
         /\ ~Contains(filename, DotDot)
         /\ StartsWith(Canonical(filename), Root)

\* A request for "/../a" is answered with the file htdocs/_/a.
C1_Witness ==
    /\ pc = "log"
    /\ request = <<"/", ".", ".", "/", "a">>
    /\ status_code = 200
    /\ filename = Root \o <<"/", "_", "/", "a">>

\* C3: a request whose sanitised url ends with ".sssg" is answered 404 and no
\* file is read for it, whether the file exists or not; and no 200 response
\* carries the contents of a file whose name ends with ".sssg".
C3_SourcesNeverServed ==
    /\ (received > 0 /\ pc # "resolve" /\ EndsWith(url, Marker)) =>
          status_code = 404 /\ filename = NoFile /\ message = FileNotFound
    /\ status_code = 200 =>
          filename # NoFile /\ ~EndsWith(Canonical(filename), Marker)

\* The source htdocs/a.sssg exists and its request is answered 404.
C3_Witness ==
    /\ pc = "log"
    /\ url = <<"/", "a">> \o Marker
    /\ IsFile(Root \o url)
    /\ status_code = 404

\* C4: for a sanitised url that does not end with ".sssg" the file read is
\* htdocs + url, with index.html appended after a final "/"; the response is
\* 200 with the bytes of that file when it can be read and 404 otherwise.
C4_ResolvedFileServed ==
    (received > 0 /\ pc # "resolve" /\ ~EndsWith(url, Marker)) =>
        /\ filename = Root \o url
                      \o (IF url # <<>> /\ url[Len(url)] = "/" THEN IndexHtml ELSE <<>>)
        /\ IF IsFile(filename)
           THEN status_code = 200 /\ message = fs[Canonical(filename)]
           ELSE status_code = 404
        /\ url = <<"/">> => status_code = 200 /\ message = <<"O", "K">>

\* The request for "/" is answered 200 "OK".
C4_Witness ==
    /\ pc = "log"
    /\ request = <<"/">>
    /\ status_code = 200
    /\ message = <<"O", "K">>

\* C5: the map handed to render has the keys of plaintext and of markdown and
\* no other; a key of markdown has its rendered markdown value, also when
\* plaintext has the key; a key of plaintext alone has its plaintext value.
C5_MarkdownOverridesPlaintext ==
    (hpc = "done" /\ from_str(contents).ok) =>
        LET document == from_str(contents).doc
            plaintext == get_section("plaintext", document)
            markdown == get_section("markdown", document)
        IN  /\ DOMAIN merged = DOMAIN plaintext \cup DOMAIN markdown
            /\ \A k \in DOMAIN markdown : merged[k] = markdown_to_html(markdown[k])
            /\ \A k \in DOMAIN plaintext \ DOMAIN markdown : merged[k] = plaintext[k]

\* The key a is in both sections, with different values.
C5_Witness ==
    /\ hpc = "done"
    /\ contents = <<<<"table", "plaintext">>, <<"str", "a", <<"x">>>>,
                    <<"table", "markdown">>, <<"str", "a", <<"y">>>>>>
    /\ merged["a"] = markdown_to_html(<<"y">>)

\* C2: when a build dies at source f, the artifacts of the sources before f
\* hold their generated content, and every other file, the artifact of f and
\* of the later sources included, is as it was when the build started.
C2_FailedBuildLeavesArtifact ==
    (cmd = "build" /\ bpc = "died") =>
        LET i == IndexOf(runOrder, failedAt)
            written == {Artifact(runOrder[j]) : j \in 1..(i - 1)}
        IN  /\ \A j \in 1..(i - 1) :
                 /\ Artifact(runOrder[j]) \in DOMAIN fs
                 /\ fs[Artifact(runOrder[j])]
                      = Generate(runOrder[j], fs[runOrder[j]]).text
            /\ \A path \in (DOMAIN fs \cup DOMAIN before) \ written :
                 SameAsBefore(path)

\* C6: a build that follows a successful build does not die, collects only
\* sources (no artifact of the first build), and ends with every file of the
\* tree as the first build left it.
C6_RebuildIsIdempotent ==
    (cmd = "build" /\ prevCmd = "build" /\ prevOk) =>
        /\ bpc # "died"
        /\ \A f \in Range(runOrder) :
             EndsWith(f, Marker) /\ \A g \in Range(runOrder) : f # Artifact(g)
        /\ bpc = "done" => fs = before

\* A second build of a css, a js and an html source has ended.
C6_Witness ==
    /\ Ended("build") /\ prevCmd = "build" /\ prevOk
    /\ Len(runOrder) = 3
    /\ \A f \in Range(runOrder) : Artifact(f) \in DOMAIN fs /\ fs[Artifact(f)] # OldArtifact

\* The clean sweep dies at the first source whose kind is not css, html or js
\* or whose artifact does not exist; the artifacts of the sources before it are
\* deleted and those of the sources after it are as they were.  It ends
\* without error only when every source had its artifact.
CleanFailFast ==
    /\ (cmd = "clean" /\ bpc = "died") =>
          LET i == IndexOf(runOrder, failedAt) IN
          /\ ~ValidKind(failedAt) \/ Artifact(failedAt) \notin DOMAIN before
          /\ \A j \in 1..(i - 1) :
               /\ ValidKind(runOrder[j])
               /\ Artifact(runOrder[j]) \in DOMAIN before
               /\ Artifact(runOrder[j]) \notin DOMAIN fs
          /\ \A j \in (i + 1)..Len(runOrder) : SameAsBefore(Artifact(runOrder[j]))
    /\ (cmd = "clean" /\ bpc = "done") =>
          \A j \in 1..Len(runOrder) :
               /\ ValidKind(runOrder[j])
               /\ Artifact(runOrder[j]) \in DOMAIN before
               /\ Artifact(runOrder[j]) \notin DOMAIN fs

NoArtifactBefore == \A f \in Range(runOrder) : Artifact(f) \notin DOMAIN before

\* C7 as stated: the clean sweep is fail-fast as above, and a clean of a tree
\* that holds no artifact, or a clean that follows a clean, ends in the error
\* state.
C7_CleanAlwaysDiesWhenClean ==
    /\ CleanFailFast
    /\ (Ended("clean") /\ (NoArtifactBefore \/ prevCmd = "clean")) => bpc = "died"

\* C7 as amended: the same, for a tree that holds at least one source.
C7_CleanDiesWhenCleanWithSources ==
    /\ CleanFailFast
    /\ (Ended("clean") /\ runOrder # <<>> /\ (NoArtifactBefore \/ prevCmd = "clean"))
          => bpc = "died"

\* A clean died at the second of three sources: the artifact of the first is
\* deleted, the artifact of the third is still there.
C7_Witness ==
    /\ cmd = "clean" /\ bpc = "died"
    /\ Len(runOrder) = 3
    /\ failedAt = runOrder[2]
    /\ Artifact(runOrder[1]) \in DOMAIN before
    /\ Artifact(runOrder[1]) \notin DOMAIN fs
    /\ Artifact(runOrder[3]) \in DOMAIN fs

\* C8: a request that waits in the listener while the loop reads the file or
\* transmits the response of another can be taken at once.
C8_NoRequestBlocks ==
    (queue # <<>> /\ pc \in {"resolve", "log", "respond"}) => ENABLED Dequeue

\* C9: a 200 response for the artifact carries what the artifact held before
\* the build or what the build writes to it.
C9_ConsistentSnapshot ==
    (pc \in {"log", "respond"} /\ status_code = 200
       /\ Canonical(filename) = Artifact(ConcSource[1])) =>
        message \in {OldArtifact, css_minify(SourcePool[ConcSource[1]]).text}

\* C10: each request has one line printed, with its status and its sanitised
\* url, before its response is transmitted; after the response the loop is
\* back at accepting; the process is dead only after a transmission failed,
\* with the line of that request printed.
C10_ErrorsArePerRequest ==
    /\ pc \in {"resolve", "log"} => logCount = received - 1 /\ responded = received - 1
    /\ pc = "respond" =>
         /\ logCount = received /\ responded = received - 1
         /\ lastLog = [status_code |-> status_code, url |-> url]
    /\ pc = "accept" => logCount = received /\ responded = received
    /\ pc = "dead" =>
         /\ logCount = received /\ responded = received - 1
         /\ lastLog = [status_code |-> status_code, url |-> url]
    /\ (pc \in {"log", "respond"} /\ (EndsWith(url, Marker) \/ ~IsFile(filename)))
         => status_code = 404

\* A second request is being handled after a request answered 404.
C10_Witness ==
    /\ received = 2
    /\ pc = "resolve"
    /\ responded = 1
    /\ lastLog.status_code = 404

====
